---- MODULE Spec2Model ----
(***************************************************************************)
(* The dataset validator (src/scripts/validate.js), the card schema        *)
(* (src/schema/card_schema.yml) and the locale merge tool                  *)
(* (src/scripts/update_locales.js) as state machines.                      *)
(*                                                                         *)
(* A record is a function from field names to values.  Strings that the    *)
(* code only compares are TLA+ strings; strings that the code scans        *)
(* (keyword rules, text fields, file contents) are sequences.              *)
(***************************************************************************)
EXTENDS Integers, Sequences, FiniteSets, TLC

\* ------------------------------------------------------------ bounds ----

\* longest keyword `rules` text explored, in characters
MaxRulesLen == 4

\* longest `traits` and `keywords` list of a card explored
MaxListLen == 2

\* most keys of a record whose canonical text is explored
MaxKeys == 3

\* most audits of one file, one per run of the validator
MaxRuns == 3

\* ----------------------------------------------------------- helpers ----

Range(s) == {s[i] : i \in 1..Len(s)}

Includes(s, x) == \E i \in 1..Len(s) : s[i] = x

RECURSIVE Flatten(_)
Flatten(ss) == IF ss = <<>> THEN <<>> ELSE Head(ss) \o Flatten(Tail(ss))

RECURSIVE Uniq(_)
Uniq(s) ==
    IF s = <<>> THEN <<>>
    ELSE LET r == Uniq(SubSeq(s, 1, Len(s) - 1))
         IN  IF Includes(r, s[Len(s)]) THEN r ELSE Append(r, s[Len(s)])

\* the sequences over S of length at most n
SeqsUpTo(S, n) == UNION {[1..m -> S] : m \in 0..n}

Has(data, f) == f \in DOMAIN data

\* data.f when the field may be absent: `dflt` stands for what the code
\* substitutes (data.f || dflt)
Get(data, f, dflt) == IF Has(data, f) THEN data[f] ELSE dflt

\* !!data.f for a string-valued field
Truthy(data, f) == Has(data, f) /\ data[f] # ""

\* ------------------------------------------------- validate.js: things --

Things ==
    <<"ink", "trait", "keyword", "cycle", "rarity", "set", "type", "card",
      "printing">>

NumThings == Len(Things)

\* things.card.pathInfo: the first path segment of the file
PathInfo(thing, path) ==
    IF thing = "card" THEN [type |-> path[1]] ELSE <<>>

HasPathInfo(thing) == thing = "card"

\* a merge in which the first source keeps the fields it already has
ExtendKeepExplicit(item, info) ==
    [f \in (DOMAIN item) \cup (DOMAIN info) |->
        IF f \in DOMAIN item THEN item[f] ELSE info[f]]

\* _.extend({}, item, info): the later source overwrites the earlier one
Extend(item, info) ==
    [f \in (DOMAIN item) \cup (DOMAIN info) |->
        IF f \in DOMAIN info THEN info[f] ELSE item[f]]

\* loadThingsData's inner loop body for one parsed item
MergeItem(thing, item, path) ==
    IF HasPathInfo(thing) THEN Extend(item, PathInfo(thing, path)) ELSE item

\* ------------------------------------------- schemas (structural check) --

CardProperties ==
    {"code", "name", "version", "cost", "type", "ink", "inkwell", "traits",
     "strength", "willpower", "lore", "text", "keywords"}

CardRequired == {"code", "name", "type", "ink", "inkwell"}

CardStrings == {"code", "name", "version", "type", "ink", "text"}

CardNaturals == {"cost", "strength", "willpower", "lore"}

CardLists == {"traits", "keywords"}

\* type: array, items minLength 1, minItems 1, uniqueItems
ValidCodeList(l) ==
    /\ Len(l) >= 1
    /\ \A i \in 1..Len(l) : l[i] # ""
    /\ \A i, j \in 1..Len(l) : i # j => l[i] # l[j]

\* src/schema/card_schema.yml, as ajv applies it to a record whose values
\* have the declared JSON types
CardSchemaValid(data) ==
    /\ DOMAIN data \subseteq CardProperties
    /\ CardRequired \subseteq DOMAIN data
    /\ \A f \in CardStrings \cap DOMAIN data : data[f] # ""
    /\ \A f \in CardNaturals \cap DOMAIN data : data[f] >= 0
    /\ \A f \in CardLists \cap DOMAIN data : ValidCodeList(data[f])

\* The schemas of the other kinds and of the overlays are not among the
\* sources: closed field sets with a required non-empty `code`.
BaseFields(thing) ==
    CASE thing = "set" -> {"code", "name", "cycle", "size", "languages"}
      [] thing = "keyword" -> {"code", "name", "args", "rules"}
      [] thing = "printing" ->
            {"code", "card", "set", "position", "rarity", "illustrator",
             "flavor"}
      [] OTHER -> {"code", "name"}

OverlayFields(thing) ==
    CASE thing = "printing" -> {"code", "flavor"}
      [] thing = "card" -> {"code", "name", "text", "version", "rules", "type"}
      [] OTHER -> {"code", "name", "text", "version", "rules"}

ClosedSchemaValid(fields, data) ==
    /\ DOMAIN data \subseteq fields
    /\ Truthy(data, "code")

\* validator(thingData) for the validator compiled from <thing>_schema.yml;
\* `who` is "en" for the base pass and the locale for an overlay pass
SchemaValid(who, thing, data) ==
    IF who = "en"
    THEN IF thing = "card" THEN CardSchemaValid(data)
         ELSE ClosedSchemaValid(BaseFields(thing), data)
    ELSE ClosedSchemaValid(OverlayFields(thing), data)

\* ------------------------------------------- validate.js: custom checks --

\* The result of a check: the violations it returns, or `threw` when it
\* ends in an uncaught TypeError (a property read on undefined).
Returned(validations) == [threw |-> FALSE, validations |-> validations]

Threw == [threw |-> TRUE, validations |-> <<>>]

\* the position of the "}" that ends the lazy match of /\{(.+?)\}/ starting
\* at the "{" at position i, or 0 when no match starts at i
MatchEnd(rules, i) ==
    IF rules[i] = "{" /\ \E j \in (i + 2)..Len(rules) : rules[j] = "}"
    THEN CHOOSE j \in (i + 2)..Len(rules) :
            /\ rules[j] = "}"
            /\ \A k \in (i + 2)..(j - 1) : rules[k] # "}"
    ELSE 0

\* data.rules.match(re) with the g flag: the matched substrings, leftmost
\* first, each search resuming after the previous match
RECURSIVE MatchAll(_, _)
MatchAll(rules, from) ==
    IF from > Len(rules) THEN <<>>
    ELSE IF MatchEnd(rules, from) = 0 THEN MatchAll(rules, from + 1)
    ELSE <<SubSeq(rules, from, MatchEnd(rules, from))>>
         \o MatchAll(rules, MatchEnd(rules, from) + 1)

\* const [__, expr] = m, where m is a whole match: the destructuring
\* iterates the characters of the matched string, so expr is its second one
DestructuredExpr(m) == <<m[2]>>

\* the capture group of a match: everything between the braces
CapturedExpr(m) == SubSeq(m, 2, Len(m) - 1)

RECURSIVE KeywordViolations(_, _, _)
KeywordViolations(matches, args, code) ==
    IF matches = <<>> THEN <<>>
    ELSE LET expr == DestructuredExpr(Head(matches))
         IN  (IF ~Includes(args, expr)
              THEN <<[rule |-> "Expression", what |-> expr, code |-> code]>>
              ELSE <<>>)
             \o KeywordViolations(Tail(matches), args, code)

\* ValidatorBase.customCheckKeyword
CustomCheckKeyword(data) ==
    IF ~Has(data, "rules") THEN Returned(<<>>)
    ELSE Returned(KeywordViolations(MatchAll(data.rules, 1),
                                    Get(data, "args", <<>>),
                                    Get(data, "code", "undefined")))

\* this.collections[thing][code], the read behind every reference check
Loaded(colls, thing) == thing \in DOMAIN colls

Resolves(colls, thing, code) ==
    \E i \in 1..Len(colls[thing]) : colls[thing][i].key = code

\* ValidatorBase.customCheckSet
CustomCheckSet(data, colls) ==
    IF ~Truthy(data, "cycle") THEN Returned(<<>>)
    ELSE IF ~Loaded(colls, "cycle") THEN Threw
    ELSE IF Resolves(colls, "cycle", data.cycle) THEN Returned(<<>>)
    ELSE Returned(<<[rule |-> "Cycle", what |-> data.cycle,
                     code |-> Get(data, "code", "undefined")]>>)

\* one `if(!!data.f && !this.collections[thing][data.f])` of customCheckCard
RefViolation(data, colls, f, thing, rule) ==
    IF Truthy(data, f) /\ ~Resolves(colls, thing, data[f])
    THEN <<[rule |-> rule, what |-> data[f],
            code |-> Get(data, "code", "undefined")]>>
    ELSE <<>>

\* a loop that stops at the first broken reference
ListViolationsFirstOnly(list, colls, thing, rule, code) ==
    IF \E i \in 1..Len(list) : ~Resolves(colls, thing, list[i])
    THEN <<[rule |-> rule,
            what |-> list[CHOOSE i \in 1..Len(list) :
                            /\ ~Resolves(colls, thing, list[i])
                            /\ \A j \in 1..(i - 1) :
                                  Resolves(colls, thing, list[j])],
            code |-> code]>>
    ELSE <<>>

\* one `for (const x of (data.f || []))` loop of customCheckCard
RECURSIVE ListViolations(_, _, _, _, _)
ListViolations(list, colls, thing, rule, code) ==
    IF list = <<>> THEN <<>>
    ELSE (IF ~Resolves(colls, thing, Head(list))
          THEN <<[rule |-> rule, what |-> Head(list), code |-> code]>>
          ELSE <<>>)
         \o ListViolations(Tail(list), colls, thing, rule, code)

CharacterRequired == <<"version", "strength", "willpower", "lore">>

\* ValidatorBase.customCheckCardCharacter
RECURSIVE MissingAttributes(_, _)
MissingAttributes(data, fields) ==
    IF fields = <<>> THEN <<>>
    ELSE (IF ~Has(data, Head(fields))
          THEN <<[rule |-> "Attribute", what |-> Head(fields),
                  code |-> Get(data, "code", "undefined")]>>
          ELSE <<>>)
         \o MissingAttributes(data, Tail(fields))

CustomCheckCardCharacter(data) == MissingAttributes(data, CharacterRequired)

\* _.upperFirst on the type codes of the model
UpperFirst(s) ==
    CASE s = "character" -> "Character"
      [] s = "item" -> "Item"
      [] OTHER -> s

\* whether this[`customCheckCard${_.upperFirst(data.type)}`] is a method
HasCardTypeCheck(data) ==
    Has(data, "type") /\ UpperFirst(data.type) = "Character"

\* ValidatorBase.customCheckCard
CustomCheckCard(data, colls) ==
    LET keywords == Get(data, "keywords", <<>>)
        traits == Get(data, "traits", <<>>)
        code == Get(data, "code", "undefined")
    IN  IF \/ Truthy(data, "type") /\ ~Loaded(colls, "type")
           \/ Truthy(data, "ink") /\ ~Loaded(colls, "ink")
           \/ keywords # <<>> /\ ~Loaded(colls, "keyword")
           \/ traits # <<>> /\ ~Loaded(colls, "trait")
        THEN Threw
        ELSE Returned(
                RefViolation(data, colls, "type", "type", "Type")
                \o RefViolation(data, colls, "ink", "ink", "Ink")
                \o ListViolations(keywords, colls, "keyword", "Keyword", code)
                \o ListViolations(traits, colls, "trait", "Trait", code)
                \o (IF HasCardTypeCheck(data)
                    THEN CustomCheckCardCharacter(data)
                    ELSE <<>>))

\* ValidatorBase.customCheck: dispatch on `customCheck${_.upperFirst(thing)}`
BaseCustomCheck(thing, data, colls) ==
    CASE thing = "keyword" -> CustomCheckKeyword(data)
      [] thing = "set" -> CustomCheckSet(data, colls)
      [] thing = "card" -> CustomCheckCard(data, colls)
      [] OTHER -> Returned(<<>>)

\* I18NValidator.customCheck
I18NCustomCheck(thing, data, colls) ==
    IF ~Truthy(data, "code") THEN Returned(<<>>)
    ELSE IF ~Loaded(colls, thing) THEN Threw
    ELSE IF Resolves(colls, thing, data.code) THEN Returned(<<>>)
    ELSE Returned(<<[rule |-> "NotExists", what |-> data.code,
                     code |-> data.code]>>)

\* this.customCheck(thing, thingData) as the validator `who` resolves it
CustomCheck(who, thing, data, colls) ==
    IF who = "en" THEN BaseCustomCheck(thing, data, colls)
    ELSE I18NCustomCheck(thing, data, colls)

\* ------------------------------------- validate.js: loading a collection --

\* The part of the file tree one loadCollection call reads:
\*   dir     whether <dataPath>/<plural thing> is a readable directory
\*   schema  what becomes of <schemaPath>/<thing>_schema.yml:
\*             "ok"         parsed and compiled
\*             "missing"    not an accessible file
\*             "falsy"      parsed to a falsy value (null, false, 0)
\*             "nocompile"  parsed, ajv.compile throws
\*             "unparsed"   yaml.load throws, ajv.compile([]) throws too
\*             "unparsedOk" yaml.load throws, ajv.compile([]) accepts all
\*   schemaDrift, and each file's drift:
\*             "clean"      the text equals its canonical form
\*             "fixed"      it differs and the file is rewritten
\*             "unfixed"    it differs and the write fails
\*   files   in glob order, each with its path under the directory (a
\*           sequence of segments), whether yaml.load parses it, and the
\*           records it holds
SchemaStatus ==
    {"ok", "missing", "falsy", "nocompile", "unparsed", "unparsedOk"}

Drift == {"clean", "fixed", "unfixed"}

NoErrors == [formatting |-> 0, validation |-> 0, nonFixedFormatting |-> 0]

AddErrors(a, b) ==
    [formatting |-> a.formatting + b.formatting,
     validation |-> a.validation + b.validation,
     nonFixedFormatting |-> a.nonFixedFormatting + b.nonFixedFormatting]

\* getDataFromFile's effect on this.errors
FileErrors(parse, drift) ==
    IF ~parse THEN [NoErrors EXCEPT !.validation = 1]
    ELSE [formatting |-> IF drift = "clean" THEN 0 ELSE 1,
          validation |-> 0,
          nonFixedFormatting |-> IF drift = "unfixed" THEN 1 ELSE 0]

RECURSIVE MergeItems(_, _, _)
MergeItems(thing, items, path) ==
    IF items = <<>> THEN <<>>
    ELSE <<MergeItem(thing, Head(items), path)>>
         \o MergeItems(thing, Tail(items), path)

\* ValidatorBase.loadThingsData: the collection, and the errors counted
RECURSIVE LoadThingsData(_, _)
LoadThingsData(thing, files) ==
    IF files = <<>> THEN [collection |-> <<>>, errors |-> NoErrors]
    ELSE [collection |->
            (IF Head(files).parse
             THEN MergeItems(thing, Head(files).items, Head(files).path)
             ELSE <<>>)
            \o LoadThingsData(thing, Tail(files)).collection,
          errors |->
            AddErrors(FileErrors(Head(files).parse, Head(files).drift),
                      LoadThingsData(thing, Tail(files)).errors)]

\* ValidatorBase.validateSchema for one record: what it reports, whether the
\* record counts as a validation error, and whether the custom check threw
Report(data, valid, custom) ==
    [data |-> data,
     valid |-> valid,
     threw |-> custom.threw,
     validations |-> custom.validations,
     counted |-> IF ~valid \/ custom.validations # <<>> THEN 1 ELSE 0]

ValidateSchema(who, thing, data, acceptAll, colls) ==
    IF acceptAll \/ SchemaValid(who, thing, data)
    THEN Report(data, TRUE, CustomCheck(who, thing, data, colls))
    ELSE Report(data, FALSE, Returned(<<>>))

\* the loop of validateCollection: the reports up to and including the
\* first check that throws
RECURSIVE ValidateAll(_, _, _, _, _)
ValidateAll(who, thing, datas, acceptAll, colls) ==
    IF datas = <<>> THEN <<>>
    ELSE <<ValidateSchema(who, thing, Head(datas), acceptAll, colls)>>
         \o (IF ValidateSchema(who, thing, Head(datas), acceptAll, colls).threw
             THEN <<>>
             ELSE ValidateAll(who, thing, Tail(datas), acceptAll, colls))

RECURSIVE SumCounted(_)
SumCounted(reports) ==
    IF reports = <<>> THEN 0
    ELSE Head(reports).counted + SumCounted(Tail(reports))

\* getDataFromFile(schemaPath) and checkJsonSchema: the errors counted
SchemaErrors(schema, schemaDrift) ==
    CASE schema \in {"ok", "falsy"} -> FileErrors(TRUE, schemaDrift)
      [] schema = "nocompile" ->
            AddErrors(FileErrors(TRUE, schemaDrift),
                      [NoErrors EXCEPT !.validation = 1])
      [] schema = "unparsed" -> [NoErrors EXCEPT !.validation = 2]
      [] schema = "unparsedOk" -> [NoErrors EXCEPT !.validation = 1]
      [] OTHER -> NoErrors

\* validateCollection once its loop has produced `reports`
Validated(tree, reports) ==
    [outcome |->
        IF \E i \in 1..Len(reports) : reports[i].threw THEN "threw"
        ELSE IF \A i \in 1..Len(reports) : reports[i].valid
        THEN "true" ELSE "false",
     errors |->
        AddErrors(SchemaErrors(tree.schema, tree.schemaDrift),
                  [NoErrors EXCEPT !.validation = SumCounted(reports)]),
     reports |-> reports]

\* ValidatorBase.validateCollection
ValidateCollection(who, thing, thingsData, tree, colls) ==
    IF tree.schema = "missing"
    THEN [outcome |-> "fatal", errors |-> NoErrors, reports |-> <<>>]
    ELSE IF tree.schema \in {"falsy", "nocompile", "unparsed"}
    THEN [outcome |-> "false",
          errors |-> SchemaErrors(tree.schema, tree.schemaDrift),
          reports |-> <<>>]
    ELSE Validated(tree, ValidateAll(who, thing, thingsData,
                                     tree.schema = "unparsedOk", colls))

\* loadCollection's result from loadThingsData's and validateCollection's
LoadedCollection(loaded, v) ==
    [outcome |-> v.outcome,
     errors |-> AddErrors(loaded.errors, v.errors),
     reports |-> v.reports,
     thingsData |-> loaded.collection]

\* ValidatorBase.loadCollection: "fatal" (a ValidationError), "threw" (a
\* TypeError), "false" (returns undefined) or "true" (returns thingsData)
LoadCollection(who, thing, tree, colls) ==
    IF ~tree.dir
    THEN [outcome |-> "fatal", errors |-> NoErrors, reports |-> <<>>,
          thingsData |-> <<>>]
    ELSE LoadedCollection(LoadThingsData(thing, tree.files),
                          ValidateCollection(
                              who, thing,
                              LoadThingsData(thing, tree.files).collection,
                              tree, colls))

\* A collection is the object this.collections[thing]: its entries in key
\* insertion order.
KeyOf(item) == Get(item, "code", "undefined")

HasKey(coll, key) == \E i \in 1..Len(coll) : coll[i].key = key

\* this.collections[thing][item.code] = item
Assign(coll, item) ==
    IF HasKey(coll, KeyOf(item))
    THEN [i \in 1..Len(coll) |->
            IF coll[i].key = KeyOf(item)
            THEN [key |-> KeyOf(item), item |-> item] ELSE coll[i]]
    ELSE Append(coll, [key |-> KeyOf(item), item |-> item])

RECURSIVE AssignAll(_, _)
AssignAll(coll, items) ==
    IF items = <<>> THEN coll
    ELSE AssignAll(Assign(coll, Head(items)), Tail(items))

\* ValidatorBase.loadCollections
LoadCollections(colls, thing, collection) ==
    LET old == IF thing \in DOMAIN colls THEN colls[thing] ELSE <<>>
    IN  [k \in (DOMAIN colls) \cup {thing} |->
            IF k = thing THEN AssignAll(old, collection) ELSE colls[k]]

\* ------------------------------------------- the file trees of the run --

Tree(dir, schema, schemaDrift, files) ==
    [dir |-> dir, schema |-> schema, schemaDrift |-> schemaDrift,
     files |-> files]

File(path, parse, drift, items) ==
    [path |-> path, parse |-> parse, drift |-> drift, items |-> items]

\* a tree with an accessible directory, a good schema and one clean file
\* holding `items`
Good(path, items) ==
    Tree(TRUE, "ok", "clean", <<File(path, TRUE, "clean", items)>>)

Empty == Tree(TRUE, "ok", "clean", <<>>)

Named(code) == [code |-> code, name |-> "N"]

Translated(code) == [code |-> code, name |-> "T"]

SetLanguages ==
    {<<"en">>, <<"en", "es">>, <<"en", "es", "fr">>, <<"en", "fr", "es">>}

SetRecords ==
    {[code |-> "s1", name |-> "N", languages |-> l] : l \in SetLanguages}
    \cup {[code |-> "s1", name |-> "N", cycle |-> c, languages |-> l] :
            c \in {"c1", "cX"}, l \in SetLanguages}

PlainCard(ink) ==
    [code |-> "k1", name |-> "N", ink |-> ink, inkwell |-> TRUE]

\* the base trees of the run: every kind of fault in some collection, and
\* sets that reference a cycle and enable locales in either order
RunBaseTrees(thing) ==
    CASE thing = "ink" ->
            {Tree(TRUE, "ok", "clean",
                  <<File(<<"amber.yml">>, TRUE, d, <<Named("amber")>>)>>) :
                d \in Drift}
      [] thing = "trait" ->
            {Good(<<"hero.yml">>, <<Named("hero")>>),
             Tree(TRUE, "ok", "clean",
                  <<File(<<"bad.yml">>, FALSE, "clean", <<>>),
                    File(<<"hero.yml">>, TRUE, "clean", <<Named("hero")>>)>>)}
      [] thing = "keyword" ->
            {Good(<<"draw.yml">>,
                  <<[code |-> "draw", name |-> "N", args |-> a,
                     rules |-> <<"D", "{", "n", "}">>]>>) :
                a \in {<<>>, <<<<"n">>>>}}
      [] thing = "cycle" ->
            {Good(<<"c1.yml">>, <<Named("c1")>>),
             Good(<<"c1.yml">>, <<[code |-> "c1", junk |-> "x"]>>),
             Tree(TRUE, "nocompile", "clean",
                  <<File(<<"c1.yml">>, TRUE, "clean", <<Named("c1")>>)>>),
             Tree(TRUE, "falsy", "clean",
                  <<File(<<"c1.yml">>, TRUE, "clean", <<Named("c1")>>)>>)}
      [] thing = "rarity" ->
            {Good(<<"rare.yml">>, <<Named("rare")>>),
             Tree(FALSE, "ok", "clean", <<>>),
             Tree(TRUE, "missing", "fixed", <<>>)}
      [] thing = "set" -> {Good(<<"s1.yml">>, <<r>>) : r \in SetRecords}
      [] thing = "type" ->
            {Tree(TRUE, sch, "clean",
                  <<File(<<"item.yml">>, TRUE, "clean", <<Named("item")>>)>>) :
                sch \in {"ok", "unparsed", "unparsedOk"}}
      [] thing = "card" ->
            {Good(<<"item", "k1.yml">>, <<PlainCard("amber")>>),
             Good(<<"item", "k1.yml">>, <<PlainCard("ghost")>>),
             Good(<<"item", "k1.yml">>, <<[code |-> "k1", ink |-> "amber"]>>)}
      [] OTHER ->
            {Good(<<"p1.yml">>, <<[code |-> "p1", card |-> "k1"]>>),
             Tree(TRUE, "ok", "fixed",
                  <<File(<<"p1.yml">>, TRUE, "clean",
                         <<[code |-> "p1", card |-> "k1"]>>)>>)}

\* the overlay trees of the run: overlays of codes the base has and of
\* codes it has not
RunOverlayTrees(thing) ==
    CASE thing = "cycle" -> {Empty, Good(<<"c1.yml">>, <<Translated("c1")>>)}
      [] thing = "set" -> {Empty, Good(<<"s1.yml">>, <<Translated("s1")>>)}
      [] thing = "card" ->
            {Empty,
             Good(<<"item", "k1.yml">>, <<Translated("k1")>>),
             Good(<<"item", "k9.yml">>, <<Translated("k9")>>)}
      [] thing = "printing" ->
            {Empty,
             Tree(TRUE, "ok", "clean",
                  <<File(<<"p1.yml">>, TRUE, "fixed",
                         <<[code |-> "p1", flavor |-> "F"]>>)>>)}
      [] OTHER -> {Empty}

\* a tree whose collection loadCollection does not return
Unloaded(path, items) ==
    Tree(TRUE, "nocompile", "clean", <<File(path, TRUE, "clean", items)>>)

\* a card record with the optional fields of `opt`
CardRecords ==
    LET base == [code |-> "k1", name |-> "N", inkwell |-> TRUE]
        attrs == {[version |-> "V", strength |-> 0, willpower |-> 1],
                  [version |-> "V", strength |-> 0, willpower |-> 1,
                   lore |-> 0]}
        types == {<<>>, [type |-> "ghost"]}
        inks == {[ink |-> "amber"], [ink |-> "ghost"]}
        traits == {<<>>} \cup {[traits |-> l] :
                                 l \in SeqsUpTo({"hero", "ghost", "void"}, MaxListLen)}
        keywords == {<<>>} \cup {[keywords |-> l] :
                                   l \in SeqsUpTo({"draw", "ghost"}, MaxListLen)}
    IN  {base @@ a @@ t @@ i @@ tr @@ kw :
            a \in attrs, t \in types, i \in inks, tr \in traits,
            kw \in keywords}

\* the base trees of the card checks: each referenced collection loaded or
\* not, and cards with every combination of resolving and broken references
CardBaseTrees(thing) ==
    CASE thing = "ink" ->
            {Good(<<"amber.yml">>, <<Named("amber")>>),
             Unloaded(<<"amber.yml">>, <<Named("amber")>>)}
      [] thing = "trait" ->
            {Good(<<"hero.yml">>, <<Named("hero")>>),
             Unloaded(<<"hero.yml">>, <<Named("hero")>>)}
      [] thing = "keyword" ->
            {Good(<<"draw.yml">>, <<Named("draw")>>),
             Unloaded(<<"draw.yml">>, <<Named("draw")>>)}
      [] thing = "cycle" -> {Good(<<"c1.yml">>, <<Named("c1")>>)}
      [] thing = "rarity" -> {Good(<<"rare.yml">>, <<Named("rare")>>)}
      [] thing = "set" ->
            {Good(<<"s1.yml">>,
                  <<[code |-> "s1", name |-> "N", languages |-> l]>>) :
                l \in {<<"en">>, <<"en", "es">>}}
      [] thing = "type" ->
            {Good(<<"types.yml">>, <<Named("character"), Named("item")>>),
             Good(<<"types.yml">>, <<Named("item")>>),
             Unloaded(<<"types.yml">>, <<Named("item")>>)}
      [] thing = "card" ->
            {Good(<<dir, "k1.yml">>, <<r>>) :
                dir \in {"character", "item"}, r \in CardRecords}
      [] OTHER -> {Good(<<"p1.yml">>, <<[code |-> "p1", card |-> "k1"]>>)}

CardOverlayTrees(thing) ==
    CASE thing = "card" ->
            {Empty, Good(<<"item", "k1.yml">>, <<Translated("k1")>>)}
      [] OTHER -> {Empty}

\* keyword records whose rules are every text over a two-letter alphabet
\* and the braces, with the args that declare none, one or both letters or
\* the two-letter expression
KeywordRecords ==
    {[code |-> "draw", name |-> "N"]}
    \cup {[code |-> "draw", name |-> "N", rules |-> r] :
            r \in SeqsUpTo({"{", "}", "n", "c"}, MaxRulesLen)}
    \cup {[code |-> "draw", name |-> "N", rules |-> r, args |-> a] :
            r \in SeqsUpTo({"{", "}", "n", "c"}, MaxRulesLen),
            a \in {<<>>, <<<<"n">>>>, <<<<"n">>, <<"c">>>>, <<<<"n", "c">>>>}}

KeywordBaseTrees(thing) ==
    CASE thing = "keyword" ->
            {Good(<<"draw.yml">>, <<r>>) : r \in KeywordRecords}
      [] thing = "set" ->
            {Good(<<"s1.yml">>,
                  <<[code |-> "s1", name |-> "N", languages |-> l]>>) :
                l \in {<<"en">>, <<"en", "es">>}}
      [] thing = "card" ->
            {Good(<<"item", "k1.yml">>, <<PlainCard("amber")>>)}
      [] thing = "printing" ->
            {Good(<<"p1.yml">>, <<[code |-> "p1", card |-> "k1"]>>)}
      [] thing = "ink" -> {Good(<<"amber.yml">>, <<Named("amber")>>)}
      [] thing = "type" -> {Good(<<"item.yml">>, <<Named("item")>>)}
      [] OTHER -> {Good(<<"x.yml">>, <<Named("x")>>)}

KeywordOverlayTrees(thing) ==
    CASE thing = "keyword" ->
            {Empty,
             Good(<<"draw.yml">>,
                  <<[code |-> "draw", name |-> "T",
                     rules |-> <<"{", "x", "}">>]>>)}
      [] OTHER -> {Empty}

Trees(profile, who, thing) ==
    CASE profile = "keywords" ->
            IF who = "en" THEN KeywordBaseTrees(thing)
            ELSE KeywordOverlayTrees(thing)
      [] profile = "run" ->
            IF who = "en" THEN RunBaseTrees(thing) ELSE RunOverlayTrees(thing)
      [] profile = "cards" ->
            IF who = "en" THEN CardBaseTrees(thing)
            ELSE CardOverlayTrees(thing)

\* ------------------------------------- validate.js: the canonical text --

\* A parsed file is [isList, objs]: one mapping, or a list of mappings.  A
\* mapping is the sequence of its [key, value] entries in key order; a
\* value is a string, kept as the sequence of its pieces.  A text is the
\* sequence of its lines: an entry line [dash, key, value], where dash
\* marks the "- " that starts a list item, or the empty line.

keysort ==
    <<"code", "card", "name", "version", "cost", "ink", "inkwell", "traits",
      "strength", "willpower", "lore", "text", "keywords", "set", "position",
      "rarity", "illustrator", "flavor", "args", "rules", "cycle", "size",
      "languages">>

IndexOf(seq, x) == CHOOSE i \in 1..Len(seq) : seq[i] = x

\* dump_options.*.sortKeys
CompareKeys(a, b) ==
    IF Includes(keysort, a) /\ Includes(keysort, b)
    THEN IndexOf(keysort, a) - IndexOf(keysort, b)
    ELSE 0

Reverse(seq) == [i \in 1..Len(seq) |-> seq[Len(seq) + 1 - i]]

\* Array.prototype.sort on a short array: the length of the initial run
RunIsDescending(keys) == CompareKeys(keys[2], keys[1]) < 0

RunContinues(keys, i) ==
    IF RunIsDescending(keys) THEN CompareKeys(keys[i], keys[i - 1]) < 0
    ELSE CompareKeys(keys[i], keys[i - 1]) >= 0

RunLength(keys) ==
    IF Len(keys) < 2 THEN Len(keys)
    ELSE CHOOSE r \in 2..Len(keys) :
            /\ \A i \in 3..r : RunContinues(keys, i)
            /\ r < Len(keys) => ~RunContinues(keys, r + 1)

\* the initial run made ascending
MakeRun(keys) ==
    IF Len(keys) >= 2 /\ RunIsDescending(keys)
    THEN Reverse(SubSeq(keys, 1, RunLength(keys)))
         \o SubSeq(keys, RunLength(keys) + 1, Len(keys))
    ELSE keys

\* the binary search of the insertion sort, over [left, right)
RECURSIVE InsertionPoint(_, _, _, _)
InsertionPoint(keys, pivot, left, right) ==
    IF left >= right THEN left
    ELSE IF CompareKeys(pivot, keys[left + (right - left) \div 2]) < 0
    THEN InsertionPoint(keys, pivot, left, left + (right - left) \div 2)
    ELSE InsertionPoint(keys, pivot, left + (right - left) \div 2 + 1, right)

InsertAt(keys, start, at) ==
    SubSeq(keys, 1, at - 1) \o <<keys[start]>> \o SubSeq(keys, at, start - 1)
    \o SubSeq(keys, start + 1, Len(keys))

RECURSIVE BinaryInsertionSort(_, _)
BinaryInsertionSort(keys, start) ==
    IF start > Len(keys) THEN keys
    ELSE BinaryInsertionSort(
            InsertAt(keys, start, InsertionPoint(keys, keys[start], 1, start)),
            start + 1)

\* objectKeyList.sort(state.sortKeys)
SortKeys(keys) == BinaryInsertionSort(MakeRun(keys), RunLength(keys) + 1)

KeysOf(obj) == [i \in 1..Len(obj) |-> obj[i].key]

EntryOf(obj, key) == obj[CHOOSE i \in 1..Len(obj) : obj[i].key = key]

SentinelKeys == {"text", "flavor", "rules"}

\* dump_options.data.replacer
Replacer(key, value) ==
    IF key \in SentinelKeys THEN <<"***">> \o value ELSE value

\* the entries yaml.dump writes for one mapping under a profile
DumpEntries(obj, profile) ==
    [i \in 1..Len(obj) |->
        [key |-> SortKeys(KeysOf(obj))[i],
         value |->
            IF profile = "data"
            THEN Replacer(SortKeys(KeysOf(obj))[i],
                          EntryOf(obj, SortKeys(KeysOf(obj))[i]).value)
            ELSE EntryOf(obj, SortKeys(KeysOf(obj))[i]).value]]

EntryLines(entries, isItem) ==
    [i \in 1..Len(entries) |->
        [dash |-> isItem /\ i = 1, key |-> entries[i].key,
         value |-> entries[i].value]]

RECURSIVE DumpObjects(_, _, _)
DumpObjects(objs, isList, profile) ==
    IF objs = <<>> THEN <<>>
    ELSE EntryLines(DumpEntries(Head(objs), profile), isList)
         \o DumpObjects(Tail(objs), isList, profile)

\* yaml.dump(data, options)
Dump(json, profile) == DumpObjects(json.objs, json.isList, profile)

EmptyLine == [dash |-> FALSE, key |-> "", value |-> <<>>]

\* the reduce of formatYaml: an empty line before every line that starts
\* with "-", the first line excepted
RECURSIVE SeparateItems(_, _)
SeparateItems(done, todo) ==
    IF todo = <<>> THEN done
    ELSE IF Head(todo).dash /\ Len(done) > 0
    THEN SeparateItems(done \o <<EmptyLine, Head(todo)>>, Tail(todo))
    ELSE SeparateItems(Append(done, Head(todo)), Tail(todo))

\* ValidatorBase.formatYaml
FormatYaml(json, profile) == SeparateItems(<<>>, Dump(json, profile))

\* yaml.load: the empty lines dropped, a mapping started at every "- "
RECURSIVE LoadObjects(_, _)
LoadObjects(objs, lines) ==
    IF lines = <<>> THEN objs
    ELSE IF Head(lines) = EmptyLine THEN LoadObjects(objs, Tail(lines))
    ELSE IF Head(lines).dash \/ objs = <<>>
    THEN LoadObjects(
            Append(objs, <<[key |-> Head(lines).key,
                            value |-> Head(lines).value]>>),
            Tail(lines))
    ELSE LoadObjects(
            [objs EXCEPT ![Len(objs)] =
                Append(@, [key |-> Head(lines).key,
                           value |-> Head(lines).value])],
            Tail(lines))

Load(text) ==
    [isList |-> \E i \in 1..Len(text) : text[i].dash,
     objs |-> LoadObjects(<<>>, text)]

\* the profile getDataFromFile picks from the path
ProfileOf(underSchema) == IF underSchema THEN "schema" ELSE "data"

\* getDataFromFile on a file with text `text`: what the formatting check
\* finds and what the file holds afterwards (fixFormatting is true)
Audit(text, profile, writable) ==
    IF FormatYaml(Load(text), profile) = text
    THEN [outcome |-> "clean", text |-> text]
    ELSE IF writable /\ Len(FormatYaml(Load(text), profile)) > 0
    THEN [outcome |-> "fixed", text |-> FormatYaml(Load(text), profile)]
    ELSE [outcome |-> "unfixed", text |-> text]

\* ------------------------------------------------ validate.js: the run --

VARIABLES
    pc,           \* where main() is: "start", "base", "gate", "locales",
                  \* "i18n", "merge", "summary", "done"; "fatal" after an
                  \* uncaught ValidationError, "crashed" after a TypeError
    idx,          \* index in Things of the next collection to load
    collections,  \* Validator.collections, which every I18NValidator shares
    errors,       \* Validator.errors
    locales,      \* the locales validateLocales iterates over
    locIdx,       \* index in locales of the next locale
    i18nErrors,   \* I18NValidator.errors of the current locale
    exitCode,     \* process.exitCode; -1 while unset
    skipNotice,   \* the "Validation of translated files skipped" line
    started,      \* history: locales whose I18NValidator.validate() ran
    baseEnd,      \* history: errors and collections when super.validate()
                  \* returned
    lastCheck,    \* history: the files, the loaded records and the reports
                  \* of the last loadCollection call
    tally,        \* history: the errors counted by every getDataFromFile,
                  \* checkJsonSchema and validateSchema call of the run
    failed,       \* history: the base collections that loadCollection did
                  \* not return after counting a validation error
    fmt,          \* FormatSpec: a file under audit by getDataFromFile
    mt            \* MergeSpec: update_locales.js' file trees and writes

runVars ==
    <<pc, idx, collections, errors, locales, locIdx, i18nErrors, exitCode,
      skipNotice, started, baseEnd, lastCheck, tally, failed>>

otherVars == <<fmt, mt>>

vars == <<runVars, otherVars>>

Idle == <<>>

RunInit ==
    /\ pc = "start"
    /\ idx = 1
    /\ collections = <<>>
    /\ errors = NoErrors
    /\ locales = <<>>
    /\ locIdx = 1
    /\ i18nErrors = NoErrors
    /\ exitCode = -1
    /\ skipNotice = FALSE
    /\ started = {}
    /\ baseEnd = [ended |-> FALSE, errors |-> NoErrors, collections |-> <<>>]
    /\ lastCheck = [who |-> "en", thing |-> "", files |-> <<>>,
                    thingsData |-> <<>>, reports |-> <<>>]
    /\ tally = NoErrors
    /\ failed = {}

OtherIdle ==
    /\ fmt = Idle
    /\ mt = Idle

\* ValidatorBase.validate, the directory checks before the loop
\* (dirsOk: whether both directories are readable)
Begin ==
    /\ pc = "start"
    /\ \E dirsOk \in BOOLEAN :
          IF dirsOk
          THEN pc' = "base" /\ exitCode' = exitCode
          ELSE pc' = "fatal" /\ exitCode' = 1
    /\ UNCHANGED <<idx, collections, errors, locales, locIdx, i18nErrors,
                   skipNotice, started, baseEnd, lastCheck, tally, failed>>
    /\ UNCHANGED otherVars

\* One iteration of the loop of ValidatorBase.validate, run by the
\* validator `who` on the errors `errs` and the collections `colls`.
StepResult(who, thing, errs, colls, files, r) ==
    [outcome |-> r.outcome,
     thing |-> thing,
     counted |-> r.errors,
     errors |-> AddErrors(errs, r.errors),
     collections |-> IF r.outcome = "true"
                     THEN LoadCollections(colls, thing, r.thingsData)
                     ELSE colls,
     check |-> [who |-> who, thing |-> thing, files |-> files,
                thingsData |-> r.thingsData, reports |-> r.reports]]

LoadStep(who, thing, errs, colls, tree) ==
    StepResult(who, thing, errs, colls, tree.files,
               LoadCollection(who, thing, tree, colls))

\* the step of the base pass with result s
BaseStep(s) ==
    /\ lastCheck' = s.check
    /\ IF s.outcome \in {"fatal", "threw"}
       THEN /\ pc' = IF s.outcome = "fatal" THEN "fatal" ELSE "crashed"
            /\ exitCode' = 1
            /\ UNCHANGED <<idx, collections, errors, baseEnd, tally, failed>>
       ELSE /\ errors' = s.errors
            /\ tally' = AddErrors(tally, s.counted)
            /\ failed' = IF s.outcome = "false" /\ s.counted.validation > 0
                         THEN failed \cup {s.thing} ELSE failed
            /\ collections' = s.collections
            /\ exitCode' = exitCode
            /\ IF idx < NumThings
               THEN /\ idx' = idx + 1
                    /\ pc' = "base"
                    /\ baseEnd' = baseEnd
               ELSE /\ idx' = 1
                    /\ pc' = "gate"
                    /\ baseEnd' = [ended |-> TRUE, errors |-> s.errors,
                                   collections |-> s.collections]

LoadBase(profile) ==
    /\ pc = "base"
    /\ \E tree \in Trees(profile, "en", Things[idx]) :
          BaseStep(LoadStep("en", Things[idx], errors, collections, tree))
    /\ UNCHANGED <<locales, locIdx, i18nErrors, skipNotice, started>>
    /\ UNCHANGED otherVars

\* a guard that looks at the formatting count instead
GateOpenOnFormatting(errs) == errs.formatting = 0

\* the guard of Validator.validate
GateOpen(errs) == errs.validation = 0

RECURSIVE Languages(_)
Languages(coll) ==
    IF coll = <<>> THEN <<>>
    ELSE Get(Head(coll).item, "languages", <<>>) \o Languages(Tail(coll))

\* the first statement of validateLocales
LocalesOf(colls) ==
    LET all == Uniq(Languages(IF "set" \in DOMAIN colls THEN colls["set"]
                              ELSE <<>>))
    IN  SelectSeq(all, LAMBDA lang : lang # "en")

\* Validator.validate after super.validate()
Gate ==
    /\ pc = "gate"
    /\ IF GateOpen(errors)
       THEN /\ locales' = LocalesOf(collections)
            /\ locIdx' = 1
            /\ pc' = "locales"
            /\ skipNotice' = skipNotice
       ELSE /\ skipNotice' = TRUE
            /\ pc' = "summary"
            /\ UNCHANGED <<locales, locIdx>>
    /\ UNCHANGED <<idx, collections, errors, i18nErrors, exitCode, started,
                   baseEnd, lastCheck, tally, failed>>
    /\ UNCHANGED otherVars

\* validateLocales: the I18NValidator of the next locale is constructed on
\* this.collections and its validate() checks its two directories
StartLocale ==
    /\ pc = "locales"
    /\ locIdx <= Len(locales)
    /\ started' = started \cup {locales[locIdx]}
    /\ i18nErrors' = NoErrors
    /\ idx' = 1
    /\ \E dirsOk \in BOOLEAN :
          IF dirsOk
          THEN pc' = "i18n" /\ exitCode' = exitCode
          ELSE pc' = "fatal" /\ exitCode' = 1
    /\ UNCHANGED <<collections, errors, locales, locIdx, skipNotice, baseEnd,
                   lastCheck, tally, failed>>
    /\ UNCHANGED otherVars

\* one iteration of the loop of validate() in the I18NValidator
I18NStep(s) ==
    /\ lastCheck' = s.check
    /\ IF s.outcome \in {"fatal", "threw"}
       THEN /\ pc' = IF s.outcome = "fatal" THEN "fatal" ELSE "crashed"
            /\ exitCode' = 1
            /\ UNCHANGED <<idx, collections, i18nErrors, tally>>
       ELSE /\ i18nErrors' = s.errors
            /\ tally' = AddErrors(tally, s.counted)
            /\ collections' = s.collections
            /\ exitCode' = exitCode
            /\ IF idx < NumThings
               THEN idx' = idx + 1 /\ pc' = "i18n"
               ELSE idx' = 1 /\ pc' = "merge"

LoadI18N(profile) ==
    /\ pc = "i18n"
    /\ \E tree \in Trees(profile, locales[locIdx], Things[idx]) :
          I18NStep(LoadStep(locales[locIdx], Things[idx], i18nErrors,
                            collections, tree))
    /\ UNCHANGED <<errors, locales, locIdx, skipNotice, started, baseEnd,
                   failed>>
    /\ UNCHANGED otherVars

\* validateLocales: the three sums after i18nValidator.validate()
FinishLocale ==
    /\ pc = "merge"
    /\ errors' = AddErrors(errors, i18nErrors)
    /\ locIdx' = locIdx + 1
    /\ pc' = "locales"
    /\ UNCHANGED <<idx, collections, locales, i18nErrors, exitCode, skipNotice,
                   started, baseEnd, lastCheck, tally, failed>>
    /\ UNCHANGED otherVars

\* validateLocales returns
EndLocales ==
    /\ pc = "locales"
    /\ locIdx > Len(locales)
    /\ pc' = "summary"
    /\ UNCHANGED <<idx, collections, errors, locales, locIdx, i18nErrors,
                   exitCode, skipNotice, started, baseEnd, lastCheck, tally, failed>>
    /\ UNCHANGED otherVars

\* an exit code that forgives the formatting errors that were repaired
ExitCodeOfUnfixed(errs) ==
    IF errs.nonFixedFormatting + errs.validation = 0 THEN 0 ELSE 1

\* what showResults assigns to process.exitCode
ExitCodeOf(errs) == IF errs.formatting + errs.validation = 0 THEN 0 ELSE 1

\* ValidatorBase.showResults
ShowResults ==
    /\ pc = "summary"
    /\ exitCode' = ExitCodeOf(errors)
    /\ pc' = "done"
    /\ UNCHANGED <<idx, collections, errors, locales, locIdx, i18nErrors,
                   skipNotice, started, baseEnd, lastCheck, tally, failed>>
    /\ UNCHANGED otherVars

Init == RunInit /\ OtherIdle

Next ==
    \/ Begin
    \/ LoadBase("run")
    \/ Gate
    \/ StartLocale
    \/ LoadI18N("run")
    \/ FinishLocale
    \/ EndLocales
    \/ ShowResults

Spec == Init /\ [][Next]_vars

CardNext ==
    \/ Begin
    \/ LoadBase("cards")
    \/ Gate
    \/ StartLocale
    \/ LoadI18N("cards")
    \/ FinishLocale
    \/ EndLocales
    \/ ShowResults

\* the run over trees that exercise the card checks
CardSpec == Init /\ [][CardNext]_vars

KeywordNext ==
    \/ Begin
    \/ LoadBase("keywords")
    \/ Gate
    \/ StartLocale
    \/ LoadI18N("keywords")
    \/ FinishLocale
    \/ EndLocales
    \/ ShowResults

\* the run over trees that exercise the keyword check
KeywordSpec == Init /\ [][KeywordNext]_vars

\* ------------------------------------- validate.js: one file, run by run --

\* the keys of the records written to files: three that keysort orders,
\* one of them a sentinel key, and two it does not know
FileKeys == {"code", "name", "text", "type", "image"}

\* the mappings over `keys` with the keys in every order an author may
\* have written them, of `n` keys at most
Mappings(keys, n) ==
    {[i \in 1..Len(ks) |-> [key |-> ks[i], value |-> <<"v">>]] :
        ks \in {q \in SeqsUpTo(keys, n) :
                    q # <<>> /\ Cardinality(Range(q)) = Len(q)}}

\* the contents of a file: one mapping, or a list of one or two mappings
Contents ==
    {[isList |-> FALSE, objs |-> <<m>>] : m \in Mappings(FileKeys, MaxKeys)}
    \cup {[isList |-> TRUE, objs |-> ms] :
            ms \in {q \in SeqsUpTo(Mappings(FileKeys, MaxKeys - 1), 2) :
                        q # <<>>}}

\* the text an author wrote: the entries as they are, nothing inserted
Authored(json) ==
    Flatten([i \in 1..Len(json.objs) |->
                EntryLines(json.objs[i], json.isList)])

FormatInit ==
    /\ RunInit
    /\ mt = Idle
    /\ \E underSchema \in BOOLEAN, json \in Contents :
          fmt = [profile |-> ProfileOf(underSchema), text |-> Authored(json),
                 history |-> <<>>]

Audited(file, audit) ==
    [file EXCEPT !.text = audit.text,
                 !.history = Append(@, audit.outcome)]

\* one run of the validator reads the file through getDataFromFile
\* (writable: whether fs.writeFileSync succeeds)
AuditFile ==
    /\ Len(fmt.history) < MaxRuns
    /\ \E writable \in BOOLEAN :
          fmt' = Audited(fmt, Audit(fmt.text, fmt.profile, writable))
    /\ UNCHANGED <<runVars, mt>>

FormatNext == AuditFile

FormatSpec == FormatInit /\ [][FormatNext]_vars

\* ------------------------------------------------- update_locales.js --

\* A file is <<directory, name>> under a root; a table is a function from
\* the files found under a root to what was picked from each: a mapping
\* from field to value for a thing, a list of such mappings for printings.

\* file.replaceAll('sets/', 'printings/')
ReplaceAll(file) == IF file[1] = "sets" THEN <<"printings", file[2]>> ELSE file

\* setLanguages: the `languages` of every base set, under the path of the
\* set's printings file
setLanguages(sets) ==
    [file \in {ReplaceAll(f) : f \in DOMAIN sets} |->
        sets[CHOOSE f \in DOMAIN sets : ReplaceAll(f) = file]]

\* _.merge({}, a, b) of two mappings
Merge(a, b) ==
    [k \in DOMAIN a \cup DOMAIN b |-> IF k \in DOMAIN b THEN b[k] ELSE a[k]]

MergeFile(defaultLocale, locale, file) ==
    IF file \notin DOMAIN defaultLocale THEN locale[file]
    ELSE IF file \notin DOMAIN locale THEN defaultLocale[file]
    ELSE Merge(defaultLocale[file], locale[file])

mergeData(defaultLocale, locale) ==
    [file \in DOMAIN defaultLocale \cup DOMAIN locale |->
        MergeFile(defaultLocale, locale, file)]

ListOf(table, file) == IF file \in DOMAIN table THEN table[file] ELSE <<>>

HasCode(list, code) == \E i \in 1..Len(list) : list[i].code = code

ByCode(list, code) ==
    list[CHOOSE i \in 1..Len(list) :
            list[i].code = code /\ \A j \in i + 1..Len(list) : list[j].code # code]

\* the values of the merge of the two lists keyed by code: the codes of the
\* default locale in their order, then the codes only the locale has
MergeList(dl, ll) ==
    [i \in 1..Len(dl) |->
        IF HasCode(ll, dl[i].code) THEN Merge(dl[i], ByCode(ll, dl[i].code))
        ELSE dl[i]]
    \o SelectSeq(ll, LAMBDA p : ~HasCode(dl, p.code))

mergeLists(defaultLocale, locale) ==
    [file \in DOMAIN defaultLocale \cup DOMAIN locale |->
        MergeList(ListOf(defaultLocale, file), ListOf(locale, file))]

\* the guard that opens both write loops
Skipped(languagesOf, file, code) ==
    file \in DOMAIN languagesOf /\ ~Includes(languagesOf[file], code)

\* the files a write loop writes
Writes(languagesOf, code, locale, merged) ==
    {file \in DOMAIN merged :
        /\ ~Skipped(languagesOf, file, code)
        /\ file \notin DOMAIN locale \/ locale[file] # merged[file]}

\* dump_options.replacer of update_locales.js
LocaleReplacer(key, value) ==
    IF key \in {"text", "flavor", "rules"} THEN <<"***">> \o value ELSE value

DumpMapping(m) == [k \in DOMAIN m |-> LocaleReplacer(k, m[k])]

DumpList(l) == [i \in 1..Len(l) |-> DumpMapping(l[i])]

\* the root of a locale after a write loop wrote `files`
WrittenThings(locale, merged, files) ==
    [file \in DOMAIN locale \cup files |->
        IF file \in files THEN DumpMapping(merged[file]) ELSE locale[file]]

WrittenPrintings(locale, merged, files) ==
    [file \in DOMAIN locale \cup files |->
        IF file \in files THEN DumpList(merged[file]) ELSE locale[file]]

\* const codes
codes(locale, sets) ==
    IF locale # "" THEN <<locale>>
    ELSE Uniq(Flatten([i \in 1..2 |-> sets[<<"sets", <<"s1", "s2">>[i]>>]]))

\* the base tree: two sets, their printings and a card
LanguageLists == {<<"en">>, <<"en", "fr">>, <<"en", "fr", "es">>}

EnglishThings ==
    (<<"sets", "s1">> :> [code |-> <<"s1">>, name |-> <<"N">>])
    @@ (<<"sets", "s2">> :> [code |-> <<"s2">>, name |-> <<"N">>])
    @@ (<<"cards", "c1">> :> [code |-> <<"c1">>, name |-> <<"N">>,
                              text |-> <<"X">>])

EnglishPrintings ==
    (<<"printings", "s1">> :> <<[code |-> <<"p1">>, flavor |-> <<"F">>]>>)
    @@ (<<"printings", "s2">> :> <<[code |-> <<"p2">>, flavor |-> <<"F">>]>>)

\* the roots a locale may have before the tool runs: any of the overlay
\* files of set s1 and of the card, each already holding what the merge
\* gives or only a translated name or flavor
ThingOverlays ==
    {<<>>}
    \cup {(<<"sets", "s1">> :> m) :
            m \in {[code |-> <<"s1">>, name |-> <<"T">>],
                    [name |-> <<"T">>]}}
    \cup {(<<"cards", "c1">> :> m) :
            m \in {[code |-> <<"c1">>, name |-> <<"T">>, text |-> <<"X">>],
                    [code |-> <<"c1">>, name |-> <<"T">>]}}

PrintingOverlays ==
    {<<>>}
    \cup {(<<"printings", "s1">> :> l) :
            l \in {<<[code |-> <<"p1">>, flavor |-> <<"F">>]>>,
                    <<[code |-> <<"p1">>, flavor |-> <<"G">>]>>}}

LocaleCodes == {"fr", "es"}

MergeInit ==
    /\ RunInit
    /\ fmt = Idle
    /\ \E l1 \in LanguageLists, l2 \in LanguageLists,
          locale \in {"", "en", "fr", "es"},
          things \in [LocaleCodes -> ThingOverlays],
          printings \in [LocaleCodes -> PrintingOverlays] :
          mt = [sets |-> (<<"sets", "s1">> :> l1) @@ (<<"sets", "s2">> :> l2),
                codes |-> codes(locale,
                                (<<"sets", "s1">> :> l1)
                                @@ (<<"sets", "s2">> :> l2)),
                next |-> 1,
                things |-> things,
                printings |-> printings,
                written |-> {}]

\* codes.forEach, the callback on 'en'
SkipEnglish ==
    /\ mt.next <= Len(mt.codes)
    /\ mt.codes[mt.next] = "en"
    /\ mt' = [mt EXCEPT !.next = @ + 1]
    /\ UNCHANGED <<runVars, fmt>>

Updated(m, code, mergedThings, mergedPrintings, thingWrites, printingWrites) ==
    [m EXCEPT
        !.next = @ + 1,
        !.things[code] = WrittenThings(@, mergedThings, thingWrites),
        !.printings[code] = WrittenPrintings(@, mergedPrintings, printingWrites),
        !.written = @ \cup {<<code, f>> : f \in thingWrites \cup printingWrites}]

UpdateCode(m, code, mergedThings, mergedPrintings) ==
    Updated(m, code, mergedThings, mergedPrintings,
            Writes(setLanguages(m.sets), code, m.things[code], mergedThings),
            Writes(setLanguages(m.sets), code, m.printings[code],
                   mergedPrintings))

\* codes.forEach, the callback on any other code
UpdateLocale ==
    /\ mt.next <= Len(mt.codes)
    /\ mt.codes[mt.next] # "en"
    /\ mt' = UpdateCode(mt, mt.codes[mt.next],
                        mergeData(EnglishThings, mt.things[mt.codes[mt.next]]),
                        mergeLists(EnglishPrintings,
                                   mt.printings[mt.codes[mt.next]]))
    /\ UNCHANGED <<runVars, fmt>>

MergeNext == SkipEnglish \/ UpdateLocale

MergeSpec == MergeInit /\ [][MergeNext]_vars

\* ------------------------------------------------- properties of the run --

\* the run ended with the summary line
Summarised == pc = "done"

\* the base pass ended with a validation error counted
BaseFailed == baseEnd.ended /\ baseEnd.errors.validation # 0

\* C1: an I18NValidator is started only after a base pass that counted no
\* validation error; after a base pass that counted one, no locale is ever
\* validated, the counters stay those of the base pass, and the skip notice
\* is out once the guard has been passed, hence before the run ends.
C1_LocalesOnlyAfterCleanBase ==
    /\ started # {} => baseEnd.ended /\ baseEnd.errors.validation = 0
    /\ BaseFailed =>
          /\ started = {}
          /\ i18nErrors = NoErrors
          /\ errors = baseEnd.errors
          /\ pc \in {"gate", "summary", "done"}
          /\ pc # "gate" => skipNotice

\* a run that ends after a base pass with one validation error (an
\* unparseable trait file) although its set enables two locales
C1_Witness ==
    /\ Summarised
    /\ baseEnd.errors.validation = 1
    /\ Len(LocalesOf(baseEnd.collections)) = 2
    /\ skipNotice
    /\ started = {}

\* C2: at the summary the exit code is 0 exactly when no formatting and no
\* validation error was counted anywhere in the run, base pass and locales
\* together; a repaired formatting error counts.
C2_ExitCodeZeroIffNoErrors ==
    Summarised =>
        /\ exitCode \in {0, 1}
        /\ exitCode = 0 <=> tally.formatting + tally.validation = 0

\* a run that validated a locale and whose only errors are formatting
\* errors that were all repaired, one of them in an overlay: it exits 1
C2_Witness ==
    /\ Summarised
    /\ started # {}
    /\ tally.validation = 0
    /\ tally.formatting > baseEnd.errors.formatting
    /\ tally.nonFixedFormatting = 0
    /\ exitCode = 1

\* C3: after a base collection failed (schema compile failure, parse error
\* or structural error, each counted), the base pass does not end in an
\* uncaught exception: the later collections are still loaded.
C3_FailedCollectionNeverAborts ==
    ~ /\ pc = "crashed"
      /\ lastCheck.who = "en"
      /\ failed # {}
      /\ \A i \in 1..(idx - 1) :
            Things[i] \notin DOMAIN collections => Things[i] \in failed

BaseCollection(thing) ==
    IF thing \in DOMAIN baseEnd.collections
    THEN baseEnd.collections[thing] ELSE <<>>

\* C4: in every locale, a schema-valid overlay record whose code is not a
\* code of the base collection as the base pass loaded it gets a "does not
\* exist" violation and counts as a validation error.
C4_OverlayCodeMustBeBaseCode ==
    lastCheck.who # "en" =>
        \A i \in 1..Len(lastCheck.reports) :
            (/\ lastCheck.reports[i].valid
             /\ ~lastCheck.reports[i].threw
             /\ ~HasKey(BaseCollection(lastCheck.thing),
                        lastCheck.reports[i].data.code))
            => /\ \E j \in 1..Len(lastCheck.reports[i].validations) :
                     lastCheck.reports[i].validations[j].rule = "NotExists"
               /\ lastCheck.reports[i].counted = 1

\* a collection as the mapping from its codes to its records
AsMap(coll) ==
    [k \in {coll[i].key : i \in 1..Len(coll)} |->
        coll[CHOOSE i \in 1..Len(coll) : coll[i].key = k].item]

\* C5: once the base pass has ended, every base collection keeps mapping
\* the same codes to the same records.
C5_BaseCollectionsUnchanged ==
    baseEnd.ended =>
        \A t \in DOMAIN baseEnd.collections :
            AsMap(collections[t]) = AsMap(baseEnd.collections[t])

\* the references of a card that do not resolve, counted one by one
Codes(colls, thing) ==
    IF thing \in DOMAIN colls
    THEN {colls[thing][i].key : i \in 1..Len(colls[thing])} ELSE {}

BrokenIn(list, known) ==
    Cardinality({i \in 1..Len(list) : list[i] \notin known})

BrokenReferences(data, colls) ==
    BrokenIn(<<data.type>>, Codes(colls, "type"))
    + BrokenIn(<<data.ink>>, Codes(colls, "ink"))
    + BrokenIn(Get(data, "traits", <<>>), Codes(colls, "trait"))
    + BrokenIn(Get(data, "keywords", <<>>), Codes(colls, "keyword"))

ReferenceRules == {"Type", "Ink", "Trait", "Keyword"}

ReferenceViolations(validations) ==
    Cardinality({j \in 1..Len(validations) :
                    validations[j].rule \in ReferenceRules})

RECURSIVE Sources(_)
Sources(files) ==
    IF files = <<>> THEN <<>>
    ELSE (IF Head(files).parse
          THEN [i \in 1..Len(Head(files).items) |->
                    [item |-> Head(files).items[i], path |-> Head(files).path]]
          ELSE <<>>)
         \o Sources(Tail(files))

\* every field but `type` is the parsed one
OtherFieldsKept(merged, item) ==
    /\ DOMAIN merged = (DOMAIN item) \cup {"type"}
    /\ \A f \in (DOMAIN item) \ {"type"} : merged[f] = item[f]

\* C6 as stated: a loaded card has the path-derived type when its file
\* declares none and its declared type otherwise; its other fields are
\* those of the file.
C6_ExplicitTypeWins ==
    lastCheck.thing = "card" =>
        /\ Len(lastCheck.thingsData) = Len(Sources(lastCheck.files))
        /\ \A i \in 1..Len(lastCheck.thingsData) :
            LET merged == lastCheck.thingsData[i]
                src == Sources(lastCheck.files)[i]
            IN  /\ OtherFieldsKept(merged, src.item)
                /\ merged.type = IF Has(src.item, "type") THEN src.item.type
                                 ELSE src.path[1]

\* C6 amended: a loaded card always has the path-derived type, declared
\* type or not; its other fields are those of the file.
C6_PathTypeWins ==
    lastCheck.thing = "card" =>
        /\ Len(lastCheck.thingsData) = Len(Sources(lastCheck.files))
        /\ \A i \in 1..Len(lastCheck.thingsData) :
            LET merged == lastCheck.thingsData[i]
                src == Sources(lastCheck.files)[i]
            IN  /\ OtherFieldsKept(merged, src.item)
                /\ merged.type = src.path[1]

\* a card file under item/ that declares another type and traits: loaded
\* with type "item" and the same traits
C6_Witness ==
    /\ lastCheck.thing = "card"
    /\ lastCheck.who = "en"
    /\ \E i \in 1..Len(lastCheck.thingsData) :
          /\ Has(Sources(lastCheck.files)[i].item, "type")
          /\ Sources(lastCheck.files)[i].item.type = "ghost"
          /\ Sources(lastCheck.files)[i].path[1] = "item"
          /\ lastCheck.thingsData[i].type = "item"
          /\ Has(lastCheck.thingsData[i], "traits")

\* the violations the keyword rule is to report: one for each placeholder
\* of `rules`, in order, whose whole expression is not in `args`
RECURSIVE UndeclaredPlaceholders(_, _, _)
UndeclaredPlaceholders(matches, args, code) ==
    IF matches = <<>> THEN <<>>
    ELSE (IF ~Includes(args, CapturedExpr(Head(matches)))
          THEN <<[rule |-> "Expression", what |-> CapturedExpr(Head(matches)),
                  code |-> code]>>
          ELSE <<>>)
         \o UndeclaredPlaceholders(Tail(matches), args, code)

\* C7: in the base pass the keyword rule reports, for a schema-valid
\* keyword, exactly one violation per placeholder whose whole expression
\* is not listed in args, naming that expression, and none otherwise.
C7_OneViolationPerUndeclaredPlaceholder ==
    (lastCheck.who = "en" /\ lastCheck.thing = "keyword") =>
        \A i \in 1..Len(lastCheck.reports) :
            lastCheck.reports[i].valid =>
                lastCheck.reports[i].validations
                = UndeclaredPlaceholders(
                    MatchAll(Get(lastCheck.reports[i].data, "rules", <<>>), 1),
                    Get(lastCheck.reports[i].data, "args", <<>>),
                    lastCheck.reports[i].data.code)

\* the file holds the text the last audit wrote
Repaired ==
    Len(fmt.history) > 0 /\ fmt.history[Len(fmt.history)] = "fixed"

\* C8: the canonical text a repair wrote is a fixed point of parsing and
\* canonicalizing again, in both profiles, so the audit of the run after a
\* repair finds the file clean.
C8_RepairedFileStaysClean ==
    /\ Repaired => FormatYaml(Load(fmt.text), fmt.profile) = fmt.text
    /\ \A i \in 1..Len(fmt.history) - 1 :
          fmt.history[i] = "fixed" => fmt.history[i + 1] = "clean"

\* C10: the merge tool writes, for a locale, no file under sets/ or
\* printings/ of a set whose `languages` does not contain the locale.
C10_NoWriteForDisabledSet ==
    \A w \in mt.written :
        w[2][1] \in {"sets", "printings"} =>
            Includes(mt.sets[<<"sets", w[2][2]>>], w[1])

============================================================================
